---- MODULE Spec2Model ----
(***************************************************************************)
(* Model of qsort in sqlite3/libc/stdlib.h: Shellsort with the Gonnet &    *)
(* Baeza-Yates gap sequence over an untyped buffer of nel elements of      *)
(* width bytes each, driven by a caller-supplied three-way comparator.     *)
(*                                                                         *)
(* The buffer is modelled byte by byte (mem, a sequence of bytes; the C    *)
(* byte offset k is mem[k+1]).  Every local of the routine is a variable;  *)
(* a local that is out of scope is held at 0.  pc is the position in the   *)
(* routine.  Undefined behaviour (a false __builtin_assume, an access      *)
(* outside the buffer) leads to pc = "ub".                                 *)
(***************************************************************************)
EXTENDS Integers, Sequences, FiniteSets

VARIABLES
  mem,     \* the caller's buffer, Len(mem) = width * nel bytes
  nel,     \* argument: number of elements
  width,   \* argument: bytes per element (> 0)
  comp,    \* argument: which comparator the caller passed
  wnel,    \* local: width * nel
  gap,     \* local: current gap, in elements
  wgap,    \* local: width * gap
  i,       \* local: byte offset of the element being inserted
  j,       \* local: byte offset of the backward walk
  a,       \* local: pointer a, as a byte offset from base
  b,       \* local: pointer b, as a byte offset from base
  s,       \* local: bytes of the current swap still to exchange
  res,     \* the value returned by the last comparator invocation
  pc,      \* position in the routine
  mem0,    \* history: the buffer on entry
  ncomp,   \* history: number of comparator invocations
  nswap,   \* history: number of completed element swaps
  passes   \* history: the gap of every pass started, in order

vars == <<mem, nel, width, comp, wnel, gap, wgap, i, j, a, b, s, res, pc,
          mem0, ncomp, nswap, passes>>

---------------------------------------------------------------------------
(* Bounds of the model. *)

\* largest nel whose inputs are enumerated exhaustively (ascending comparator)
MaxNel == 6
\* largest element value of the exhaustively enumerated inputs
MaxVal == 2
\* largest key of the (key, tag) records sorted by key only
MaxKey == 1
\* largest nel sorted under the arbitrary comparator
MaxNelAny == 5
\* largest element width sorted under the arbitrary comparator
MaxWidth == 2
\* largest nel of the descending and all-equal inputs
MaxBigNel == 50

\* number of values of a byte (char is 8 bits)
ByteBase == 256

---------------------------------------------------------------------------
(* The buffer: elements and their encoding. *)

RECURSIVE Pow(_, _)
Pow(x, n) == IF n = 0 THEN 1 ELSE x * Pow(x, n - 1)

\* byte k (0-based) of the little-endian encoding of v
ByteOf(v, k) == (v \div Pow(ByteBase, k)) % ByteBase

\* nel elements of w bytes each, little-endian, laid out contiguously
EncodeAll(vals, w) ==
  [p \in 1..(Len(vals) * w) |->
     ByteOf(vals[((p - 1) \div w) + 1], (p - 1) % w)]

\* the w bytes at byte offset off
ElemBytes(m, off, w) == [k \in 1..w |-> m[off + k]]

\* the element with index k (0-based)
ElemAt(m, k, w) == ElemBytes(m, k * w, w)

\* the buffer as a sequence of elements
Elems(m, w) == [k \in 1..(Len(m) \div w) |-> ElemAt(m, k - 1, w)]

RECURSIVE DecodeFrom(_, _, _)
\* the unsigned little-endian integer stored in the w bytes at offset off
DecodeFrom(m, off, w) ==
  IF w = 0 THEN 0
  ELSE m[off + 1] + ByteBase * DecodeFrom(m, off + 1, w - 1)

Sign(x) == IF x < 0 THEN -1 ELSE IF x > 0 THEN 1 ELSE 0

---------------------------------------------------------------------------
(* The comparators a caller passes. *)

\* ascending order of the elements read as unsigned integers
CompAsc(m, pa, pb, w) == Sign(DecodeFrom(m, pa, w) - DecodeFrom(m, pb, w))

\* ascending order of the first byte only (a record's key); the rest of the
\* record does not take part, so distinct records can compare equal
CompKey(m, pa, pb, w) == Sign(m[pa + 1] - m[pb + 1])

\* the results comparator c can return for the elements at offsets pa, pb
CompResults(c, m, pa, pb, w) ==
  CASE c = "asc" -> {CompAsc(m, pa, pb, w)}
    [] c = "key" -> {CompKey(m, pa, pb, w)}
    [] c = "any" -> {-1, 0, 1}

\* comparators that are a consistent strict weak ordering
Consistent == comp \in {"asc", "key"}

---------------------------------------------------------------------------
(* The pieces of qsort. *)

WNelNoWidth(w, n) == n
\* line 21: size_t wnel = width * nel
WNel(w, n) == w * n

WhileCondSkipLast(g) == g > 2
WhileCondEnterOne(g) == g > 0
\* line 23: while (gap > 1)
WhileCond(g) == g > 1

GapUpdateNoClamp(g) == (5 * g - 1) \div 11
GapUpdateOne(g) == 1
\* lines 27-28: gap = (5ull * gap - 1) / 11; if (gap == 0) gap = 1
GapUpdate(g) ==
  LET g1 == (5 * g - 1) \div 11
  IN  IF g1 = 0 THEN 1 ELSE g1

\* line 36: size_t wgap = width * gap
WGap(w, g) == w * g

\* line 37: the condition given to __builtin_assume
AssumeCond(wg, wn) == wg < wn

\* line 38: for (size_t i = wgap; ...
ForInit(wg, w) == wg

ForCondInclusive(x, wn) == x <= wn
\* line 38: ... i < wnel; ...
ForCond(x, wn) == x < wn

SubOverflowOffByOne(x, wg) == x <= wg
\* line 41: __builtin_sub_overflow(j, wgap, &j) is true when j - wgap wraps
SubOverflow(x, wg) == x < wg

PtrBAdjacent(pa, wg, w) == pa + w
\* line 43: char *b = a + wgap
PtrB(pa, wg, w) == pa + wg

BreakCondStrict(r) == r < 0
\* line 44: if (comp(a, b) <= 0) break
BreakCond(r) == r <= 0

\* a w-byte access at offset off lies inside [base, base + wnel)
InBuffer(off, w) == 0 <= off /\ off + w <= Len(mem)

ExchangeByteNoTmp(m, pa, pb) == [m EXCEPT ![pa + 1] = m[pb + 1]]
\* lines 49-51: char tmp = *a; *a++ = *b; *b++ = tmp
ExchangeByte(m, pa, pb) ==
  [m EXCEPT ![pa + 1] = m[pb + 1], ![pb + 1] = m[pa + 1]]

---------------------------------------------------------------------------
(* The calls explored. *)

\* every sequence of at most MaxNel one-byte values, ascending comparator
SmallAsc ==
  {[width |-> 1, comp |-> "asc", vals |-> v] :
     v \in UNION {[1..n -> 0..MaxVal] : n \in 0..MaxNel}}

\* records of two bytes (key, tag) sorted by key; the tag is the record's
\* position on entry
KeyTag ==
  {[width |-> 2, comp |-> "key",
    vals |-> [p \in 1..Len(k) |-> k[p] + ByteBase * (p - 1)]] :
     k \in UNION {[1..n -> 0..MaxKey] : n \in 0..MaxNel}}

\* distinct elements under a comparator that may answer anything
AnyCmp ==
  {[width |-> w, comp |-> "any", vals |-> [p \in 1..n |-> p - 1]] :
     w \in 1..MaxWidth, n \in 0..MaxNelAny}

\* 32-bit integers: the documented examples, and one whose order depends on
\* more than the low byte
Examples ==
  {[width |-> 4, comp |-> "asc", vals |-> v] :
     v \in {<<5, 3, 8, 1, 9, 2>>, <<7, 7, 7, 7>>, <<9, 8, 7, 6, 5>>,
            <<256, 3, 255, 65536, 257>>}}

\* larger buffers: descending and all-equal
Big ==
  {[width |-> 1, comp |-> "asc", vals |-> [p \in 1..n |-> n - p]] :
     n \in (MaxNel + 1)..MaxBigNel}
  \cup
  {[width |-> 1, comp |-> "asc", vals |-> [p \in 1..n |-> 7]] :
     n \in (MaxNel + 1)..MaxBigNel}

Calls == SmallAsc \cup KeyTag \cup AnyCmp \cup Examples \cup Big

\* qsort(base, nel, width, comp) has just been called
Init ==
  \E c \in Calls :
    /\ mem = EncodeAll(c.vals, c.width)
    /\ mem0 = EncodeAll(c.vals, c.width)
    /\ nel = Len(c.vals)
    /\ width = c.width
    /\ comp = c.comp
    /\ wnel = 0 /\ gap = 0 /\ wgap = 0
    /\ i = 0 /\ j = 0 /\ a = 0 /\ b = 0 /\ s = 0 /\ res = 0
    /\ pc = "entry"
    /\ ncomp = 0 /\ nswap = 0 /\ passes = <<>>

---------------------------------------------------------------------------
(* The steps of qsort. *)

\* lines 21-22: the initialisation of wnel and gap
Entry ==
  /\ pc = "entry"
  /\ wnel' = WNel(width, nel)
  /\ gap' = nel
  /\ pc' = "while"
  /\ UNCHANGED <<mem, nel, width, comp, wgap, i, j, a, b, s, res,
                 mem0, ncomp, nswap, passes>>

\* lines 23-36: the loop test; when it holds, the gap update and wgap
While ==
  /\ pc = "while"
  /\ IF WhileCond(gap)
     THEN /\ gap' = GapUpdate(gap)
          /\ wgap' = WGap(width, GapUpdate(gap))
          /\ pc' = "assume"
     ELSE /\ pc' = "done"
          /\ UNCHANGED <<gap, wgap>>
  /\ UNCHANGED <<mem, nel, width, comp, wnel, i, j, a, b, s, res,
                 mem0, ncomp, nswap, passes>>

\* lines 37-38: __builtin_assume(wgap < wnel), then i = wgap
Assume ==
  /\ pc = "assume"
  /\ IF AssumeCond(wgap, wnel)
     THEN /\ i' = ForInit(wgap, width)
          /\ passes' = Append(passes, gap)
          /\ pc' = "for"
     ELSE /\ pc' = "ub"
          /\ UNCHANGED <<i, passes>>
  /\ UNCHANGED <<mem, nel, width, comp, wnel, gap, wgap, j, a, b, s, res,
                 mem0, ncomp, nswap>>

\* lines 38, 41: the test i < wnel; when it holds, j = i
For ==
  /\ pc = "for"
  /\ IF ForCond(i, wnel)
     THEN /\ j' = i
          /\ pc' = "walk"
          /\ UNCHANGED <<i, wgap>>
     ELSE /\ i' = 0
          /\ wgap' = 0
          /\ j' = 0
          /\ pc' = "while"
  /\ UNCHANGED <<mem, nel, width, comp, wnel, gap, a, b, s, res,
                 mem0, ncomp, nswap, passes>>

\* lines 41-43: j -= wgap unless that wraps; a = base + j, b = a + wgap
Walk ==
  /\ pc = "walk"
  /\ IF SubOverflow(j, wgap)
     THEN /\ i' = i + width
          /\ j' = 0
          /\ pc' = "for"
          /\ UNCHANGED <<a, b>>
     ELSE /\ j' = j - wgap
          /\ a' = j - wgap
          /\ b' = PtrB(j - wgap, wgap, width)
          /\ pc' = "comp"
          /\ UNCHANGED i
  /\ UNCHANGED <<mem, nel, width, comp, wnel, gap, wgap, s, res,
                 mem0, ncomp, nswap, passes>>

\* lines 44, 47: comp(a, b); break when it is <= 0, else s = width
Comp ==
  /\ pc = "comp"
  /\ IF InBuffer(a, width) /\ InBuffer(b, width)
     THEN \E r \in CompResults(comp, mem, a, b, width) :
            /\ res' = r
            /\ ncomp' = ncomp + 1
            /\ IF BreakCond(r)
               THEN /\ i' = i + width
                    /\ j' = 0 /\ a' = 0 /\ b' = 0
                    /\ pc' = "for"
                    /\ UNCHANGED s
               ELSE /\ s' = width
                    /\ pc' = "swap"
                    /\ UNCHANGED <<i, j, a, b>>
     ELSE /\ pc' = "ub"
          /\ UNCHANGED <<i, j, a, b, s, res, ncomp>>
  /\ UNCHANGED <<mem, nel, width, comp, wnel, gap, wgap,
                 mem0, nswap, passes>>

\* lines 48-52: one iteration of the byte swap loop
Swap ==
  /\ pc = "swap"
  /\ IF InBuffer(a, 1) /\ InBuffer(b, 1)
     THEN /\ mem' = ExchangeByte(mem, a, b)
          /\ IF s - 1 = 0
             THEN /\ s' = 0 /\ a' = 0 /\ b' = 0
                  /\ nswap' = nswap + 1
                  /\ pc' = "walk"
             ELSE /\ s' = s - 1
                  /\ a' = a + 1
                  /\ b' = b + 1
                  /\ pc' = "swap"
                  /\ UNCHANGED nswap
     ELSE /\ pc' = "ub"
          /\ UNCHANGED <<mem, a, b, s, nswap>>
  /\ UNCHANGED <<nel, width, comp, wnel, gap, wgap, i, j, res,
                 mem0, ncomp, passes>>

Next == Entry \/ While \/ Assume \/ For \/ Walk \/ Comp \/ Swap

Spec == Init /\ [][Next]_vars

\* the call is one sequential thread: it takes its next step
FairSpec == Spec /\ WF_vars(Next)

---------------------------------------------------------------------------
(* Vocabulary of the properties. *)

Max(x, y) == IF x > y THEN x ELSE y

\* what the caller's comparator answers for the elements with indices p, q
\* of buffer m (one value for a consistent comparator)
Cmp(m, p, q) ==
  CHOOSE r \in CompResults(comp, m, p * width, q * width, width) : TRUE

\* the elements of m read as unsigned integers
Vals(m) == [k \in 1..(Len(m) \div width) |-> DecodeFrom(m, (k - 1) * width, width)]

Count(sq, x) == Cardinality({k \in DOMAIN sq : sq[k] = x})

\* two sequences hold the same multiset
SameBag(s1, s2) ==
  /\ Len(s1) = Len(s2)
  /\ \A k \in DOMAIN s1 : Count(s1, s1[k]) = Count(s2, s1[k])

RECURSIVE MinOf(_)
MinOf(S) ==
  LET x == CHOOSE y \in S : TRUE
  IN  IF S = {x} THEN x
      ELSE LET r == MinOf(S \ {x}) IN IF x < r THEN x ELSE r

RECURSIVE Remove(_, _)
\* sq without the first occurrence of x
Remove(sq, x) ==
  IF sq = <<>> THEN <<>>
  ELSE IF Head(sq) = x THEN Tail(sq)
  ELSE <<Head(sq)>> \o Remove(Tail(sq), x)

RECURSIVE RefSort(_)
\* the reference sort of a sequence of integers: selection of the minimum
RefSort(sq) ==
  IF sq = <<>> THEN <<>>
  ELSE LET x == MinOf({sq[k] : k \in DOMAIN sq})
       IN  <<x>> \o RefSort(Remove(sq, x))

\* the buffer is ordered under the caller's comparator, pairwise
SortedAllPairs(m) ==
  \A p \in 0..(nel - 1) : \A q \in 0..(nel - 1) : p < q => Cmp(m, p, q) <= 0

\* during a swap: the buffer with the bytes exchanged so far put back
UndoPartial ==
  LET d == width - s
  IN  [p \in DOMAIN mem |->
         IF p - 1 >= j /\ p - 1 < j + d THEN mem[p + wgap]
         ELSE IF p - 1 >= j + wgap /\ p - 1 < j + wgap + d THEN mem[p - wgap]
         ELSE mem[p]]

\* key and tag of record k (0-based) of a (key, tag) buffer
KeyAt(m, k) == m[2 * k + 1]
TagAt(m, k) == m[2 * k + 2]

\* two records with equal keys stand in the opposite order from entry
Unstable(m) ==
  \E p \in 0..(nel - 1) : \E q \in 0..(nel - 1) :
    p < q /\ KeyAt(m, p) = KeyAt(m, q) /\ TagAt(m, p) > TagAt(m, q)

StrictlyDecreasing(sq) == \A k \in 1..(Len(sq) - 1) : sq[k] > sq[k + 1]

---------------------------------------------------------------------------
(* The properties. *)

\* C1 (sortedness): under a consistent comparator, when qsort has returned,
\* comp(element k, element k+1) <= 0 for every adjacent pair 0 <= k < nel-1.
C1_Sortedness ==
  (pc = "done" /\ Consistent) =>
    \A k \in 0..(nel - 2) : Cmp(mem, k, k + 1) <= 0

C1_Witness ==
  /\ pc = "done" /\ comp = "key" /\ nel >= 5 /\ nswap >= 3
  /\ \A k \in 0..(nel - 2) : Cmp(mem, k, k + 1) <= 0

C2_Inv ==
  /\ Len(mem) = Len(mem0)
  /\ pc # "swap" => SameBag(Elems(mem, width), Elems(mem0, width))
  /\ pc = "swap" =>
       /\ j % width = 0
       /\ wgap = width * gap
       /\ a = j + (width - s)
       /\ b = a + wgap
       /\ SameBag(Elems(UndoPartial, width), Elems(mem0, width))

C2_Step ==
  mem' # mem =>
    /\ pc = "swap"
    /\ mem' = [mem EXCEPT ![a + 1] = mem[b + 1], ![b + 1] = mem[a + 1]]

\* C2 (permutation preservation): the multiset of elements is the one on
\* entry in every state outside a swap, so after every completed swap and on
\* return; the buffer changes only by the byte exchange of a swap, which
\* exchanges two whole elements exactly gap positions apart.
C2_Permutation == []C2_Inv /\ [][C2_Step]_vars

C2_Witness ==
  /\ pc = "done" /\ width = 4 /\ nswap >= 3 /\ mem # mem0
  /\ SameBag(Elems(mem, width), Elems(mem0, width))

\* C3 (degenerate sizes): with nel = 0 or nel = 1 the comparator is never
\* invoked, nothing is swapped, the buffer is unchanged and the loop body is
\* never entered.
C3_Degenerate ==
  nel <= 1 =>
    /\ ncomp = 0 /\ nswap = 0 /\ mem = mem0 /\ passes = <<>>
    /\ pc \in {"entry", "while", "done"}

C3_Witness == pc = "done" /\ nel = 1 /\ width = 2 /\ ncomp = 0

\* C4 (reference equivalence): for integer elements under the ascending
\* comparator the buffer on return is the reference sort of the buffer on
\* entry; [5,3,8,1,9,2] becomes [1,2,3,5,8,9], [9,8,7,6,5] becomes [5,6,7,8,9].
C4_Reference ==
  (pc = "done" /\ comp = "asc") =>
    /\ Vals(mem) = RefSort(Vals(mem0))
    /\ Vals(mem0) = <<5, 3, 8, 1, 9, 2>> => Vals(mem) = <<1, 2, 3, 5, 8, 9>>
    /\ Vals(mem0) = <<9, 8, 7, 6, 5>> => Vals(mem) = <<5, 6, 7, 8, 9>>

C4_Witness ==
  /\ pc = "done" /\ comp = "asc" /\ width = 4
  /\ Vals(mem0) = <<5, 3, 8, 1, 9, 2>>
  /\ Vals(mem) = <<1, 2, 3, 5, 8, 9>>

C5_Unchanged ==
  /\ res <= 0
  /\ nswap = 0
  /\ pc # "swap"
  /\ mem = mem0
  /\ (pc = "done" /\ nel >= 2) => ncomp > 0

\* C5 (idempotence): when the buffer is sorted on entry under a consistent
\* comparator, every comparator result is <= 0, no swap is performed, the
\* buffer is unchanged in every state, and for nel >= 2 the comparator has
\* been invoked by the time qsort returns.
C5_Idempotent ==
  Consistent => (C5_Unchanged \/ ~SortedAllPairs(mem0))

C5_Witness ==
  /\ pc = "done" /\ comp = "asc" /\ Vals(mem0) = <<7, 7, 7, 7>>
  /\ ncomp > 0 /\ nswap = 0 /\ mem = mem0

\* C6 (memory safety): under any comparator, every comparator invocation
\* gets a = base + j and b = a + wgap with 0 <= j and
\* j + wgap + width <= width * nel, both on element boundaries, every byte
\* the swap loop touches lies inside the buffer, and no undefined behaviour
\* is reached.
C6_MemorySafe ==
  /\ pc # "ub"
  /\ Len(mem) = width * nel
  /\ pc = "comp" =>
       /\ a = j /\ b = a + wgap
       /\ 0 <= j /\ j + wgap + width <= width * nel
       /\ a % width = 0 /\ b % width = 0
  /\ pc = "swap" =>
       /\ 0 <= a /\ a < width * nel
       /\ 0 <= b /\ b < width * nel

C6_Witness ==
  /\ comp = "any" /\ width = 2 /\ pc = "swap" /\ s = 1
  /\ b = width * nel - 1 /\ gap > 1 /\ res > 0

C7_Step ==
  /\ (pc = "while" /\ pc' = "assume") =>
       /\ gap' = Max(1, (5 * gap - 1) \div 11)
       /\ gap' < gap
       /\ gap' >= 1
  /\ (pc = "while" /\ nel >= 2 /\ gap = 1) => pc' = "done"
  /\ (pc = "walk" /\ pc' = "comp") => j' < j
  /\ (pc \in {"walk", "comp"} /\ pc' = "for") => i' > i
  /\ (pc = "swap" /\ pc' = "swap") => (s' < s /\ s' > 0)

C7_Inv ==
  /\ StrictlyDecreasing(passes)
  /\ (pc = "done" /\ nel >= 2) =>
       /\ gap = 1
       /\ passes # <<>>
       /\ passes[Len(passes)] = 1
       /\ Cardinality({k \in DOMAIN passes : passes[k] = 1}) = 1

\* C7 (termination): each outer iteration replaces gap by
\* max(1, floor((5*gap - 1)/11)), strictly smaller and at least 1; exactly
\* one pass runs with gap = 1 and it is the last; each backward walk
\* strictly decreases j, each i loop strictly increases i; the call returns.
C7_Termination == [][C7_Step]_vars /\ []C7_Inv /\ <>(pc = "done")

C7_Witness == pc = "done" /\ passes = <<22, 9, 4, 1>> /\ nswap > 0

\* C8 (not stable): sorting the records with keys [1,1,0,1,1] by key leaves
\* two equal-key records in the opposite order from entry; whenever that
\* happens, nel >= 5 and a pass with gap > 1 has run.
C8_NotStable ==
  (pc = "done" /\ comp = "key") =>
    /\ Vals(mem0) = <<1, 257, 512, 769, 1025>> => Unstable(mem)
    /\ Unstable(mem) => (nel >= 5 /\ passes[1] > 1)

C8_Witness ==
  /\ pc = "done" /\ comp = "key" /\ Unstable(mem)
  /\ \A k \in 0..(nel - 2) : Cmp(mem, k, k + 1) <= 0

\* C9 (the unchecked assumption): where __builtin_assume is evaluated,
\* 1 <= gap < nel and wgap = width*gap < wnel = width*nel; so the pass that
\* follows visits at least one index i.
C9_Assume ==
  /\ pc = "assume" =>
       /\ 1 <= gap /\ gap < nel
       /\ wgap = width * gap /\ wnel = width * nel
       /\ wgap < wnel
  /\ (pc = "for" /\ i = wgap) => i < wnel

C9_Witness == pc = "assume" /\ gap > 1 /\ width = 2 /\ wgap < wnel

C10_Inv ==
  Consistent =>
    /\ pc = "for" =>
         \A k \in gap..((i \div width) - 1) : Cmp(mem, k - gap, k) <= 0
    /\ (pc = "while" /\ passes # <<>>) =>
         \A k \in 0..(nel - gap - 1) : Cmp(mem, k, k + gap) <= 0
    /\ pc = "swap" => res > 0

C10_Step ==
  Consistent =>
    /\ (pc = "comp" /\ pc' = "swap") =>
         /\ res' > 0 /\ res' = Cmp(mem, a \div width, b \div width)
         /\ a' = a /\ b' = b /\ s' = width
    /\ (pc = "comp" /\ res' <= 0) => pc' = "for"
    /\ (pc = "comp" /\ pc' = "for") => res' <= 0
    /\ (pc = "walk" /\ pc' = "for") => j < wgap

\* C10 (per-pass gap-sortedness): under a consistent comparator, when the
\* pass for gap g completes the buffer is g-sorted, and within a pass the
\* chains of the indices already processed are in non-decreasing order; a
\* swap follows a comparator result > 0 on exactly the two elements swapped,
\* and the backward walk stops at the first result <= 0 or at the start of
\* the buffer.
C10_GapSorted == []C10_Inv /\ [][C10_Step]_vars

C10_Witness ==
  /\ pc = "while" /\ Consistent /\ gap = 2 /\ passes = <<2>> /\ nswap > 0
  /\ \A k \in 0..(nel - gap - 1) : Cmp(mem, k, k + gap) <= 0
  /\ \E k \in 0..(nel - 2) : Cmp(mem, k, k + 1) > 0

====
